---- MODULE Spec2Model ----
(***************************************************************************)
(* Model of src/src/pr5/bank_system.py: money normalisation, the currency  *)
(* converter, BankAccount and Bank; of ArtifactProcessor in                *)
(* artifact_system.py; and of MarsCalculator.factorial in                  *)
(* mars_calculator.py.                                                     *)
(*                                                                         *)
(* Representation.  A money value (a Decimal quantized to 0.01) is the     *)
(* integer number of hundredths.  A raw Python argument is a record        *)
(* [t |-> <type name>, m |-> <value in thousandths>], so that quantizing   *)
(* to two places really rounds.  A Decimal rate is [coef, exp] meaning     *)
(* coef * 10^-exp.  A list object lives in `heap` under a reference, so    *)
(* that sharing a list and copying it are different things.  An outcome    *)
(* of a call is [exc, ret] with exc = "none" when the call returned.       *)
(***************************************************************************)
EXTENDS Integers, Sequences, FiniteSets, TLC

VARIABLES
    accounts,   \* Bank.accounts: owner -> BankAccount fields
    heap,       \* list objects: reference -> sequence of log lines
    st,         \* the statement most recently returned by get_statement
    last,       \* the call most recently made, with its outcome
    pre,        \* accounts and heap as they were when that call started
    pc,         \* "ready": the caller may call; "returned": it holds a result
    artifacts,  \* ArtifactProcessor.artifacts: the list of artifact records
    added       \* how many artifacts have been added so far

vars == <<accounts, heap, st, last, pre, pc, artifacts, added>>

-----------------------------------------------------------------------------
(* Bounds of the model *)

\* Total number of log lines over all accounts.
MaxLog == 2
\* Largest absolute amount (in hundredths) handed to a converter.
MaxConvertAmount == 20000
\* Number of times the caller appends to a returned statement's list.
MaxHacks == 1

-----------------------------------------------------------------------------
(* Program constants *)

SUPPORTED_CURRENCIES == {"RUB", "USD", "EUR", "GBP"}

\* BankAccount.MAX_DEPOSIT = Decimal("1000000.00"), in hundredths.
MAX_DEPOSIT == 100000000

-----------------------------------------------------------------------------
(* Decimal arithmetic *)

Abs(n) == IF n < 0 THEN -n ELSE n

Sign(n) == IF n < 0 THEN -1 ELSE 1

RECURSIVE Pow10(_)
Pow10(e) == IF e = 0 THEN 1 ELSE 10 * Pow10(e - 1)

HalfEvenDiv(n, d) ==
    LET q == Abs(n) \div d
        r == Abs(n) % d
    IN  Sign(n) * (IF 2 * r > d \/ (2 * r = d /\ q % 2 = 1) THEN q + 1 ELSE q)

\* n / d rounded to the nearest integer, ties away from zero (ROUND_HALF_UP).
HalfUpDiv(n, d) ==
    LET q == Abs(n) \div d
        r == Abs(n) % d
    IN  Sign(n) * (IF 2 * r >= d THEN q + 1 ELSE q)

\* Decimal(coef * 10^-exp).quantize(_MONEY_Q, rounding=ROUND_HALF_UP), exp >= 2,
\* as a number of hundredths.
Quantize(coef, exp) == HalfUpDiv(coef, Pow10(exp - 2))

\* (amount * rate).quantize(_MONEY_Q, ROUND_HALF_UP) for amount in hundredths.
\* The exact product amount * rate.coef has exponent 2 + rate.exp.  For a
\* rate of more than five places the product is formed in two limbs of 10^5
\* so that no intermediate value leaves the 32-bit range.
MulQuantize(amount, rate) ==
    IF rate.exp <= 5
    THEN Quantize(amount * rate.coef, 2 + rate.exp)
    ELSE LET a   == Abs(amount)
             ch  == rate.coef \div 100000
             cl  == rate.coef % 100000
             lo  == a * cl
             hi  == a * ch + (lo \div 100000)
             d   == Pow10(rate.exp - 5)
             q   == hi \div d
             r   == hi % d
         IN  Sign(amount) * (IF 2 * r >= d THEN q + 1 ELSE q)

Pad2(n) == IF n < 10 THEN "0" \o ToString(n) ELSE ToString(n)

\* str() of a Decimal quantized to 0.01, e.g. 1010 -> "10.10", -5 -> "-0.05".
Fmt(c) ==
    (IF c < 0 THEN "-" ELSE "") \o ToString(Abs(c) \div 100) \o "." \o Pad2(Abs(c) % 100)

-----------------------------------------------------------------------------
(* Python values and outcomes *)

Val(t, m) == [t |-> t, m |-> m]

IntV(n) == Val("int", n * 1000)

\* A Decimal that holds a money value of c hundredths.
Dec(c) == Val("Decimal", c * 10)

NoValue == Val("NoneType", 0)

Ok(v) == [exc |-> "none", val |-> v]

Raise(kind) == [exc |-> kind, val |-> 0]

-----------------------------------------------------------------------------
(* _to_decimal_money *)

\* isinstance(value, (int, float, Decimal)); bool is a subclass of int.
IsNumber(v) == v.t \in {"bool", "int", "float", "Decimal"}

ToDecimalMoney(v) ==
    IF v.t = "bool" THEN Raise("TypeError")
    ELSE IF ~IsNumber(v) THEN Raise("TypeError")
    ELSE Ok(Quantize(v.m, 3))

-----------------------------------------------------------------------------
(* CurrencyConverter *)

Rate(coef, exp) == [coef |-> coef, exp |-> exp]

DefaultRates ==
    (<<"RUB", "USD">> :> Rate(1, 2)) @@
    (<<"USD", "RUB">> :> Rate(100, 0)) @@
    (<<"RUB", "EUR">> :> Rate(90909091, 10)) @@
    (<<"EUR", "RUB">> :> Rate(110, 0)) @@
    (<<"RUB", "GBP">> :> Rate(76923077, 10)) @@
    (<<"GBP", "RUB">> :> Rate(130, 0))

\* The `rates` argument of CurrencyConverter(): None, or a dict.
NoRates == [given |-> FALSE, table |-> <<>>]

Given(table) == [given |-> TRUE, table |-> table]

\* CurrencyConverter.__init__: self._rates = rates or {...}; None and the
\* empty dict are both falsy.
CurrencyConverterInit(rates) ==
    IF rates.given /\ DOMAIN rates.table # {} THEN rates.table ELSE DefaultRates

\* Mutant of CurrencyConverterConvert: a missing route is served by the
\* inverse route when the table has one.
CurrencyConverterConvertInverse(rates, amount, from_currency, to_currency) ==
    IF from_currency \notin SUPPORTED_CURRENCIES THEN Raise("ValueError")
    ELSE IF to_currency \notin SUPPORTED_CURRENCIES THEN Raise("ValueError")
    ELSE IF amount.t # "Decimal" THEN Raise("TypeError")
    ELSE LET q == Quantize(amount.m, 3) IN
         IF from_currency = to_currency THEN Ok(q)
         ELSE IF <<from_currency, to_currency>> \in DOMAIN rates
              THEN Ok(MulQuantize(q, rates[<<from_currency, to_currency>>]))
         ELSE IF <<to_currency, from_currency>> \in DOMAIN rates
              THEN Ok(HalfUpDiv(q, rates[<<to_currency, from_currency>>].coef))
         ELSE Raise("ValueError")

\* CurrencyConverter.convert on a converter whose _rates is `rates`.
CurrencyConverterConvert(rates, amount, from_currency, to_currency) ==
    IF from_currency \notin SUPPORTED_CURRENCIES THEN Raise("ValueError")
    ELSE IF to_currency \notin SUPPORTED_CURRENCIES THEN Raise("ValueError")
    ELSE IF amount.t # "Decimal" THEN Raise("TypeError")
    ELSE LET q == Quantize(amount.m, 3) IN
         IF from_currency = to_currency THEN Ok(q)
         ELSE IF <<from_currency, to_currency>> \notin DOMAIN rates THEN Raise("ValueError")
         ELSE Ok(MulQuantize(q, rates[<<from_currency, to_currency>>]))

\* The converters the callers pass: CurrencyConverter objects, and the two
\* subclasses the tests inject (Stub returns the amount, BadConv raises).
TestRates == <<"RUB", "USD">> :> Rate(1, 2)

TestRatesUsdRub == <<"USD", "RUB">> :> Rate(100, 0)

ConverterObject(name) ==
    CASE name = "table" -> [cls |-> "CurrencyConverter",
                            rates |-> CurrencyConverterInit(Given(TestRates))]
      [] name = "usdrub" -> [cls |-> "CurrencyConverter",
                             rates |-> CurrencyConverterInit(Given(TestRatesUsdRub))]
      [] name = "empty" -> [cls |-> "CurrencyConverter",
                            rates |-> CurrencyConverterInit(Given(<<>>))]
      [] name = "stub"  -> [cls |-> "Stub", rates |-> <<>>]
      [] name = "bad"   -> [cls |-> "BadConv", rates |-> <<>>]

\* converter = converter or CurrencyConverter()
OrDefaultConverter(name) ==
    IF name = "None"
    THEN [cls |-> "CurrencyConverter", rates |-> CurrencyConverterInit(NoRates)]
    ELSE ConverterObject(name)

\* converter.convert(amount, from, to), dispatched on the converter's class.
Convert(conv, amount, from_currency, to_currency) ==
    CASE conv.cls = "Stub"    -> Ok(amount.m \div 10)
      [] conv.cls = "BadConv" -> Raise("ValueError")
      [] OTHER -> CurrencyConverterConvert(conv.rates, amount, from_currency, to_currency)

-----------------------------------------------------------------------------
(* BankAccount *)

\* What the converter was handed: nothing when convert was not called, or the
\* accounts and list objects as they were when it was called.
NotInvoked == [invoked |-> FALSE, accounts |-> <<>>, heap |-> <<>>]

\* What a call leaves behind: the exception raised ("none" if it returned),
\* the value returned, and the accounts and list objects as the call left them.
Out(exc, ret, accs, hp) ==
    [exc |-> exc, ret |-> ret, accounts |-> accs, heap |-> hp, convert |-> NotInvoked]

\* The outcome of a call that called converter.convert while the accounts
\* and list objects were accs and hp.
Invoked(out, accs, hp) ==
    [out EXCEPT !.convert = [invoked |-> TRUE, accounts |-> accs, heap |-> hp]]

\* owner.strip() for the owner names the callers use.
Strip(owner) == IF owner = " " THEN "" ELSE owner

\* BankAccount.__init__: the new object, or the exception it raises.
BankAccountInit(owner, balance, currency) ==
    IF Strip(owner) = "" THEN Raise("ValueError")
    ELSE IF currency \notin SUPPORTED_CURRENCIES THEN Raise("ValueError")
    ELSE LET b == ToDecimalMoney(balance) IN
         IF b.exc # "none" THEN Raise(b.exc)
         ELSE Ok([owner |-> owner, balance |-> b.val, currency |-> currency,
                  transactions |-> owner, is_blocked |-> FALSE, overdraft_limit |-> 0])

\* The line deposit logs.
DepositLine(amount_d, currency) == "+" \o Fmt(amount_d) \o " " \o currency

\* Mutant of DepositAccepted: the ceiling itself is refused.
DepositAcceptedBelowCeiling(amount_d) == amount_d > 0 /\ amount_d < MAX_DEPOSIT

\* Whether deposit accepts the normalized amount.
DepositAccepted(amount_d) == amount_d > 0 /\ ~(amount_d > MAX_DEPOSIT)

DepositEffectLogReplaced(accs, hp, o, value) ==
    LET acc == accs[o]
        n   == ToDecimalMoney(value)
    IN  IF n.exc # "none" THEN Out(n.exc, 0, accs, hp)
        ELSE IF ~DepositAccepted(n.val) THEN Out("ValueError", 0, accs, hp)
        ELSE LET bal == Quantize(acc.balance + n.val, 2) IN
             Out("none", bal,
                 [accs EXCEPT ![o].balance = bal],
                 [hp EXCEPT ![acc.transactions] = <<DepositLine(n.val, acc.currency)>>])

DepositEffectBlockedRefused(accs, hp, o, value) ==
    LET acc == accs[o]
        n   == ToDecimalMoney(value)
    IN  IF acc.is_blocked THEN Out("PermissionError", 0, accs, hp)
        ELSE IF n.exc # "none" THEN Out(n.exc, 0, accs, hp)
        ELSE IF ~DepositAccepted(n.val) THEN Out("ValueError", 0, accs, hp)
        ELSE LET bal == Quantize(acc.balance + n.val, 2) IN
             Out("none", bal,
                 [accs EXCEPT ![o].balance = bal],
                 [hp EXCEPT ![acc.transactions] =
                      Append(@, DepositLine(n.val, acc.currency))])

DepositEffect(accs, hp, o, value) ==
    LET acc == accs[o]
        n   == ToDecimalMoney(value)
    IN  IF n.exc # "none" THEN Out(n.exc, 0, accs, hp)
        ELSE IF ~DepositAccepted(n.val) THEN Out("ValueError", 0, accs, hp)
        ELSE LET bal == Quantize(acc.balance + n.val, 2) IN
             Out("none", bal,
                 [accs EXCEPT ![o].balance = bal],
                 [hp EXCEPT ![acc.transactions] =
                      Append(@, DepositLine(n.val, acc.currency))])

\* fee = (amount_d * Decimal("0.01")).quantize(_MONEY_Q, ROUND_HALF_UP)
Fee(amount_d) == MulQuantize(amount_d, Rate(1, 2))

\* Mutant of SufficientFunds: a debit that lands exactly on the limit is refused.
SufficientFundsStrict(balance, total, overdraft_limit) ==
    balance - total > -overdraft_limit

\* not (balance - total < -overdraft_limit)
SufficientFunds(balance, total, overdraft_limit) ==
    ~(balance - total < -overdraft_limit)

WithdrawLine(amount_d, fee, currency) ==
    "-" \o Fmt(amount_d) \o " (komissiya: " \o Fmt(fee) \o ") " \o currency

\* withdraw from the fee on, for a normalized amount that passed its checks.
WithdrawCharge(accs, hp, o, amount_d) ==
    LET acc   == accs[o]
        fee   == Fee(amount_d)
        total == amount_d + fee
    IN  IF ~SufficientFunds(acc.balance, total, acc.overdraft_limit)
        THEN Out("ValueError", 0, accs, hp)
        ELSE Out("none", amount_d,
                 [accs EXCEPT ![o].balance = Quantize(acc.balance - total, 2)],
                 [hp EXCEPT ![acc.transactions] =
                      Append(@, WithdrawLine(amount_d, fee, acc.currency))])

\* Mutant of WithdrawEffect: the amount is validated before the blocked check.
WithdrawEffectAmountFirst(accs, hp, o, value) ==
    LET n == ToDecimalMoney(value) IN
    IF n.exc # "none" THEN Out(n.exc, 0, accs, hp)
    ELSE IF n.val <= 0 THEN Out("ValueError", 0, accs, hp)
    ELSE IF accs[o].is_blocked THEN Out("PermissionError", 0, accs, hp)
    ELSE WithdrawCharge(accs, hp, o, n.val)

WithdrawEffect(accs, hp, o, value) ==
    IF accs[o].is_blocked THEN Out("PermissionError", 0, accs, hp)
    ELSE LET n == ToDecimalMoney(value) IN
         IF n.exc # "none" THEN Out(n.exc, 0, accs, hp)
         ELSE IF n.val <= 0 THEN Out("ValueError", 0, accs, hp)
         ELSE WithdrawCharge(accs, hp, o, n.val)
ConvertLine(target_currency) == "Konvertirovat v " \o target_currency

ConvertToEffectSameCurrencyShortcut(accs, hp, o, target_currency, converter) ==
    LET acc == accs[o] IN
    IF target_currency \notin SUPPORTED_CURRENCIES THEN Out("ValueError", 0, accs, hp)
    ELSE IF target_currency = acc.currency THEN Out("none", acc.balance, accs, hp)
    ELSE LET conv == OrDefaultConverter(converter)
             c    == Convert(conv, Dec(acc.balance), acc.currency, target_currency)
         IN  IF c.exc # "none" THEN Out(c.exc, 0, accs, hp)
             ELSE Out("none", c.val,
                      [accs EXCEPT ![o].balance = c.val, ![o].currency = target_currency],
                      [hp EXCEPT ![acc.transactions] =
                           Append(@, ConvertLine(target_currency))])

\* Mutant of ConvertToEffect: the currency is written before the conversion.
ConvertToEffectCurrencyFirst(accs, hp, o, target_currency, converter) ==
    LET acc == accs[o] IN
    IF target_currency \notin SUPPORTED_CURRENCIES THEN Out("ValueError", 0, accs, hp)
    ELSE LET conv == OrDefaultConverter(converter)
             c    == Convert(conv, Dec(acc.balance), acc.currency, target_currency)
         IN  IF c.exc # "none"
             THEN Out(c.exc, 0, [accs EXCEPT ![o].currency = target_currency], hp)
             ELSE Out("none", c.val,
                      [accs EXCEPT ![o].balance = c.val, ![o].currency = target_currency],
                      [hp EXCEPT ![acc.transactions] =
                           Append(@, ConvertLine(target_currency))])

ConvertToEffect(accs, hp, o, target_currency, converter) ==
    LET acc == accs[o] IN
    IF target_currency \notin SUPPORTED_CURRENCIES THEN Out("ValueError", 0, accs, hp)
    ELSE LET conv == OrDefaultConverter(converter)
             c    == Convert(conv, Dec(acc.balance), acc.currency, target_currency)
         IN  Invoked(IF c.exc # "none" THEN Out(c.exc, 0, accs, hp)
                     ELSE Out("none", c.val,
                              [accs EXCEPT ![o].balance = c.val,
                                           ![o].currency = target_currency],
                              [hp EXCEPT ![acc.transactions] =
                                   Append(@, ConvertLine(target_currency))]),
                     accs, hp)

\* Mutant of StatementListRef: the statement holds the account's own list.
StatementListRefShared(acc) == acc.transactions

\* The reference of the list get_statement returns under "transactions":
\* list(self.transactions) is a new list object.
StatementRef == "stmt"

StatementListRef(acc) == StatementRef

\* get_statement: the dict returned, and the heap with the new list in it.
GetStatementEffect(accs, hp, o) ==
    LET acc == accs[o]
        ref == StatementListRef(acc)
    IN  [statement |-> [owner |-> acc.owner, currency |-> acc.currency,
                        balance |-> acc.balance, transactions |-> ref,
                        is_blocked |-> acc.is_blocked],
         heap |-> IF ref = acc.transactions THEN hp
                  ELSE [r \in DOMAIN hp \cup {ref} |->
                           IF r = ref THEN hp[acc.transactions] ELSE hp[r]]]

TransferOutLine(amount_d, currency, target_owner) ==
    "Peredacha -" \o Fmt(amount_d) \o " " \o currency \o " v " \o target_owner

TransferInLine(credited, currency, sender_owner) ==
    "Peredacha +" \o Fmt(credited) \o " " \o currency \o " ot " \o sender_owner

TransferCommitFromSnapshot(accs, hp, o, target, amount_d, credited) ==
    LET accs1 == [accs EXCEPT ![o].balance = Quantize(@ - amount_d, 2)]
        accs2 == [accs1 EXCEPT ![target].balance =
                      Quantize(accs[target].balance + credited, 2)]
        hp1   == [hp EXCEPT ![accs2[o].transactions] =
                      Append(@, TransferOutLine(amount_d, accs2[o].currency,
                                                accs2[target].owner))]
        hp2   == [hp1 EXCEPT ![accs2[target].transactions] =
                      Append(@, TransferInLine(credited, accs2[target].currency,
                                               accs2[o].owner))]
    IN  Out("none", credited, accs2, hp2)

\* Mutant of TransferCommit: the sender is debited by the credited amount.
TransferCommitDebitCredited(accs, hp, o, target, amount_d, credited) ==
    LET accs1 == [accs EXCEPT ![o].balance = Quantize(@ - credited, 2)]
        accs2 == [accs1 EXCEPT ![target].balance = Quantize(@ + credited, 2)]
        hp1   == [hp EXCEPT ![accs2[o].transactions] =
                      Append(@, TransferOutLine(amount_d, accs2[o].currency,
                                                accs2[target].owner))]
        hp2   == [hp1 EXCEPT ![accs2[target].transactions] =
                      Append(@, TransferInLine(credited, accs2[target].currency,
                                               accs2[o].owner))]
    IN  Out("none", credited, accs2, hp2)

\* The two balance writes and the two log appends of a transfer that got
\* past the conversion, in the order of the code (the target may be the sender).
TransferCommit(accs, hp, o, target, amount_d, credited) ==
    LET accs1 == [accs EXCEPT ![o].balance = Quantize(@ - amount_d, 2)]
        accs2 == [accs1 EXCEPT ![target].balance = Quantize(@ + credited, 2)]
        hp1   == [hp EXCEPT ![accs2[o].transactions] =
                      Append(@, TransferOutLine(amount_d, accs2[o].currency,
                                                accs2[target].owner))]
        hp2   == [hp1 EXCEPT ![accs2[target].transactions] =
                      Append(@, TransferInLine(credited, accs2[target].currency,
                                               accs2[o].owner))]
    IN  Out("none", credited, accs2, hp2)

\* Mutant of TransferConverted: the sender is debited before the conversion
\* is known to have succeeded.
TransferConvertedDebitFirst(accs, hp, o, target, amount_d, c) ==
    IF c.exc # "none"
    THEN Out(c.exc, 0, [accs EXCEPT ![o].balance = Quantize(@ - amount_d, 2)], hp)
    ELSE TransferCommit(accs, hp, o, target, amount_d, c.val)

\* transfer from the conversion on: c is what converter.convert returned or
\* raised; an exception leaves the method before any write.
TransferConverted(accs, hp, o, target, amount_d, c) ==
    IF c.exc # "none" THEN Out(c.exc, 0, accs, hp)
    ELSE TransferCommit(accs, hp, o, target, amount_d, c.val)

TransferEffectConvertFirst(accs, hp, o, target, value, converter) ==
    LET acc == accs[o] IN
    IF acc.is_blocked THEN Out("PermissionError", 0, accs, hp)
    ELSE IF target \notin DOMAIN accs THEN Out("TypeError", 0, accs, hp)
    ELSE LET n == ToDecimalMoney(value) IN
         IF n.exc # "none" THEN Out(n.exc, 0, accs, hp)
         ELSE IF n.val <= 0 THEN Out("ValueError", 0, accs, hp)
         ELSE LET conv == OrDefaultConverter(converter)
                  c    == Convert(conv, Dec(n.val), acc.currency, accs[target].currency)
              IN  IF c.exc # "none" THEN Invoked(Out(c.exc, 0, accs, hp), accs, hp)
                  ELSE IF ~SufficientFunds(acc.balance, n.val, acc.overdraft_limit)
                  THEN Invoked(Out("ValueError", 0, accs, hp), accs, hp)
                  ELSE Invoked(TransferCommit(accs, hp, o, target, n.val, c.val), accs, hp)

\* target is an owner name for that account object, or "None" for a value
\* that is not a BankAccount.
TransferEffect(accs, hp, o, target, value, converter) ==
    LET acc == accs[o] IN
    IF acc.is_blocked THEN Out("PermissionError", 0, accs, hp)
    ELSE IF target \notin DOMAIN accs THEN Out("TypeError", 0, accs, hp)
    ELSE LET n == ToDecimalMoney(value) IN
         IF n.exc # "none" THEN Out(n.exc, 0, accs, hp)
         ELSE IF n.val <= 0 THEN Out("ValueError", 0, accs, hp)
         ELSE LET conv == OrDefaultConverter(converter) IN
              IF ~SufficientFunds(acc.balance, n.val, acc.overdraft_limit)
              THEN Out("ValueError", 0, accs, hp)
              ELSE Invoked(TransferConverted(accs, hp, o, target, n.val,
                               Convert(conv, Dec(n.val), acc.currency,
                                       accs[target].currency)),
                           accs, hp)

-----------------------------------------------------------------------------
(* Bank *)

\* self.accounts[owner] = account
Register(accs, owner, account) ==
    [k \in DOMAIN accs \cup {owner} |-> IF k = owner THEN account ELSE accs[k]]

\* Mutant of Registered: the duplicate check is missing.
RegisteredNever(accs, owner) == FALSE

\* owner in self.accounts
Registered(accs, owner) == owner \in DOMAIN accs

CreateAccountEffect(accs, hp, owner, initial_balance, currency) ==
    IF Registered(accs, owner) THEN Out("ValueError", 0, accs, hp)
    ELSE LET a == BankAccountInit(owner, initial_balance, currency) IN
         IF a.exc # "none" THEN Out(a.exc, 0, accs, hp)
         ELSE Out("none", 0, Register(accs, owner, a.val),
                  [r \in DOMAIN hp \cup {a.val.transactions} |->
                      IF r = a.val.transactions THEN <<>> ELSE hp[r]])

\* Mutant of Counted: blocked accounts are not skipped.
CountedAlways(acc) == TRUE

\* Whether the loop of total_deposits adds this account.
Counted(acc) == ~acc.is_blocked

\* The loop of total_deposits over the accounts in `owners`: the running
\* total, or the exception of the first conversion that fails.  Every failure
\* is the converter's and nothing is written, so the order of the dict does
\* not show in the outcome.
RECURSIVE SumDeposits(_, _, _, _)
SumDeposits(accs, owners, currency, conv) ==
    IF owners = {} THEN Ok(0)
    ELSE LET o    == CHOOSE x \in owners : TRUE
             rest == SumDeposits(accs, owners \ {o}, currency, conv)
         IN  IF ~Counted(accs[o]) THEN rest
             ELSE LET c == Convert(conv, Dec(accs[o].balance), accs[o].currency, currency) IN
                  IF c.exc # "none" THEN Raise(c.exc)
                  ELSE IF rest.exc # "none" THEN rest
                  ELSE Ok(rest.val + c.val)

TotalDepositsEffect(accs, hp, currency, converter) ==
    IF currency \notin SUPPORTED_CURRENCIES THEN Out("ValueError", 0, accs, hp)
    ELSE LET t == SumDeposits(accs, DOMAIN accs, currency, OrDefaultConverter(converter))
             out == IF t.exc # "none" THEN Out(t.exc, 0, accs, hp)
                    ELSE Out("none", Quantize(t.val, 2), accs, hp)
         IN  IF \E o \in DOMAIN accs : Counted(accs[o]) THEN Invoked(out, accs, hp)
             ELSE out
-----------------------------------------------------------------------------
(* The arguments the callers use *)

Owners == {"A", "B"}

\* The accounts whose is_blocked and overdraft_limit the callers set.
ManagedOwners == {"A"}

ConverterArgs == {"None", "table", "bad"}

\* create_account(owner, initial_balance, currency)
CreateArgs ==
    (Owners \X {IntV(100)} \X {"RUB", "USD", "AAA"})
    \cup (Owners \X {Val("str", 0), Val("bool", 1000)} \X {"RUB"})
    \cup ({"", " "} \X {IntV(100)} \X {"RUB"})

DepositArgs == {IntV(10), IntV(0), Val("str", 0)}

WithdrawArgs == {IntV(10), Val("float", 109010), Val("bool", 1000)}

\* convert_to(target_currency, converter), total_deposits(currency, converter)
ConvertArgs == ({"RUB", "USD", "EUR"} \X ConverterArgs) \cup {<<"AAA", "None">>}

\* transfer(target, amount, converter)
TransferArgs ==
    (Owners \cup {"None"})
    \X (({IntV(10)} \X ConverterArgs)
        \cup ({IntV(0), IntV(1000), Val("str", 0)} \X {"None", "bad"}))

\* The overdraft limit a caller grants, in hundredths.
OverdraftArgs == {1010}

-----------------------------------------------------------------------------
(* State machine *)

Call(op, owner, target, value, currency, converter) ==
    [op |-> op, owner |-> owner, target |-> target, value |-> value,
     currency |-> currency, converter |-> converter, exc |-> "none", ret |-> 0,
     convert |-> NotInvoked]

NoCall == Call("none", "", "", NoValue, "", "")

NoPre == [accounts |-> <<>>, heap |-> <<>>]

NoStatement ==
    [valid |-> FALSE,
     dict |-> [owner |-> "", currency |-> "", balance |-> 0, transactions |-> "",
               is_blocked |-> FALSE],
     taken |-> <<>>, hacks |-> 0]

\* The log of the account registered under owner o.
Log(accs, hp, o) == hp[accs[o].transactions]

RECURSIVE TotalLog(_, _, _)
TotalLog(accs, hp, owners) ==
    IF owners = {} THEN 0
    ELSE LET o == CHOOSE x \in owners : TRUE
         IN  Len(Log(accs, hp, o)) + TotalLog(accs, hp, owners \ {o})

InConvertRange(balance) == Abs(balance) <= MaxConvertAmount

Init ==
    /\ accounts = <<>>
    /\ heap = <<>>
    /\ artifacts = <<>>
    /\ added = 0
    /\ st = NoStatement
    /\ last = NoCall
    /\ pre = NoPre
    /\ pc = "ready"

\* A call of a method: its whole effect, and its outcome handed to the caller.
Do(call, out) ==
    /\ pc = "ready"
    /\ TotalLog(out.accounts, out.heap, DOMAIN out.accounts) <= MaxLog
    /\ accounts' = out.accounts
    /\ heap' = out.heap
    /\ last' = [call EXCEPT !.exc = out.exc, !.ret = out.ret, !.convert = out.convert]
    /\ pre' = [accounts |-> accounts, heap |-> heap]
    /\ pc' = "returned"
    /\ UNCHANGED <<artifacts, added>>

CreateAccount(owner, initial_balance, currency) ==
    /\ Do(Call("create_account", owner, "", initial_balance, currency, ""),
          CreateAccountEffect(accounts, heap, owner, initial_balance, currency))
    /\ UNCHANGED st

Deposit(o, value) ==
    /\ o \in DOMAIN accounts
    /\ Do(Call("deposit", o, "", value, "", ""),
          DepositEffect(accounts, heap, o, value))
    /\ UNCHANGED st

Withdraw(o, value) ==
    /\ o \in DOMAIN accounts
    /\ Do(Call("withdraw", o, "", value, "", ""),
          WithdrawEffect(accounts, heap, o, value))
    /\ UNCHANGED st

ConvertTo(o, target_currency, converter) ==
    /\ o \in DOMAIN accounts
    /\ InConvertRange(accounts[o].balance)
    /\ Do(Call("convert_to", o, "", NoValue, target_currency, converter),
          ConvertToEffect(accounts, heap, o, target_currency, converter))
    /\ UNCHANGED st

Transfer(o, target, value, converter) ==
    /\ o \in DOMAIN accounts
    /\ InConvertRange(accounts[o].balance)
    /\ Do(Call("transfer", o, target, value, "", converter),
          TransferEffect(accounts, heap, o, target, value, converter))
    /\ UNCHANGED st

TotalDeposits(currency, converter) ==
    /\ \A o \in DOMAIN accounts : InConvertRange(accounts[o].balance)
    /\ Do(Call("total_deposits", "", "", NoValue, currency, converter),
          TotalDepositsEffect(accounts, heap, currency, converter))
    /\ UNCHANGED st

GetStatement(o) ==
    /\ pc = "ready"
    /\ o \in DOMAIN accounts
    /\ LET e == GetStatementEffect(accounts, heap, o) IN
       /\ heap' = e.heap
       \* `taken` remembers what the list held when the statement was returned.
       /\ st' = [valid |-> TRUE, dict |-> e.statement,
                 taken |-> Log(accounts, heap, o), hacks |-> 0]
    /\ last' = Call("get_statement", o, "", NoValue, "", "")
    /\ pre' = [accounts |-> accounts, heap |-> heap]
    /\ pc' = "returned"
    /\ UNCHANGED <<accounts, artifacts, added>>

\* The caller appends to the list of the statement it holds:
\* st["transactions"].append("HACK").
MutateStatement ==
    /\ pc = "ready"
    /\ st.valid
    /\ st.hacks < MaxHacks
    /\ heap' = [heap EXCEPT ![st.dict.transactions] = Append(@, "HACK")]
    /\ st' = [st EXCEPT !.hacks = @ + 1]
    /\ last' = Call("append_to_statement", st.dict.owner, "", NoValue, "", "")
    /\ pre' = [accounts |-> accounts, heap |-> heap]
    /\ pc' = "returned"
    /\ UNCHANGED <<accounts, artifacts, added>>

\* The caller sets acc.is_blocked.
SetBlocked(o, b) ==
    /\ pc = "ready"
    /\ o \in DOMAIN accounts
    /\ accounts[o].is_blocked # b
    /\ accounts' = [accounts EXCEPT ![o].is_blocked = b]
    /\ UNCHANGED <<heap, st, last, pre, pc, artifacts, added>>

\* The caller grants an overdraft limit to an account that has not been used.
SetOverdraftLimit(o, limit) ==
    /\ pc = "ready"
    /\ o \in DOMAIN accounts
    /\ accounts[o].overdraft_limit = 0
    /\ Log(accounts, heap, o) = <<>>
    /\ accounts' = [accounts EXCEPT ![o].overdraft_limit = limit]
    /\ UNCHANGED <<heap, st, last, pre, pc, artifacts, added>>

\* The caller has looked at the outcome and is ready for the next call.
Return ==
    /\ pc = "returned"
    /\ pc' = "ready"
    /\ last' = NoCall
    /\ pre' = NoPre
    /\ UNCHANGED <<accounts, heap, st, artifacts, added>>

Next ==
    \/ \E a \in CreateArgs : CreateAccount(a[1], a[2], a[3])
    \/ \E o \in Owners, v \in DepositArgs : Deposit(o, v)
    \/ \E o \in Owners, v \in WithdrawArgs : Withdraw(o, v)
    \/ \E o \in Owners, a \in ConvertArgs : ConvertTo(o, a[1], a[2])
    \/ \E o \in Owners, a \in TransferArgs : Transfer(o, a[1], a[2][1], a[2][2])
    \/ \E a \in ConvertArgs : TotalDeposits(a[1], a[2])
    \/ \E o \in ManagedOwners, b \in BOOLEAN : SetBlocked(o, b)
    \/ \E o \in ManagedOwners, l \in OverdraftArgs : SetOverdraftLimit(o, l)
    \/ Return

Spec == Init /\ [][Next]_vars

-----------------------------------------------------------------------------
(* One account, deposits and withdrawals with amounts around every boundary *)

AmountCreateArgs == {<<"A", IntV(100), "RUB">>, <<"A", IntV(0), "USD">>}

AmountDepositArgs ==
    {IntV(10), Val("float", 1005), Val("float", 4), IntV(0), IntV(-1),
     Val("Decimal", 10), IntV(1000000), Val("float", 1000000004),
     Val("float", 1000000005), Val("bool", 1000), Val("str", 0)}

AmountWithdrawArgs ==
    {IntV(10), Val("float", 99010), Val("float", 99020), Val("float", 99500),
     Val("float", 109010), Val("float", 109020), Val("float", 500),
     Val("float", 4), IntV(0), IntV(-1), Val("bool", 1000), Val("str", 0)}

NextAmounts ==
    \/ \E a \in AmountCreateArgs : CreateAccount(a[1], a[2], a[3])
    \/ \E o \in ManagedOwners, v \in AmountDepositArgs : Deposit(o, v)
    \/ \E o \in ManagedOwners, v \in AmountWithdrawArgs : Withdraw(o, v)
    \/ \E o \in ManagedOwners, b \in BOOLEAN : SetBlocked(o, b)
    \/ \E o \in ManagedOwners, l \in OverdraftArgs : SetOverdraftLimit(o, l)
    \/ Return

SpecAmounts == Init /\ [][NextAmounts]_vars

-----------------------------------------------------------------------------
(* Statements taken between the operations of two accounts *)

StatementCreateArgs == Owners \X {IntV(100)} \X {"RUB"}

NextStatement ==
    \/ \E a \in StatementCreateArgs : CreateAccount(a[1], a[2], a[3])
    \/ \E o \in Owners : Deposit(o, IntV(10))
    \/ \E o \in Owners : Withdraw(o, IntV(10))
    \/ \E o \in Owners : ConvertTo(o, "USD", "None")
    \/ \E o \in Owners, t \in Owners : Transfer(o, t, IntV(10), "stub")
    \/ \E o \in Owners : GetStatement(o)
    \/ MutateStatement
    \/ Return

SpecStatement == Init /\ [][NextStatement]_vars

-----------------------------------------------------------------------------
(* Two accounts with every operation, the ones that fail and the ones that  *)
(* only read included                                                        *)

NextLog ==
    \/ NextStatement
    \/ \E o \in Owners, v \in {IntV(0), Val("str", 0)} : Deposit(o, v)
    \/ \E o \in Owners, v \in {IntV(1000), Val("bool", 1000)} : Withdraw(o, v)
    \/ \E o \in Owners, a \in {<<"AAA", "None">>, <<"EUR", "bad">>} : ConvertTo(o, a[1], a[2])
    \/ \E o \in Owners, t \in Owners \cup {"None"}, k \in {"None", "bad"} :
           Transfer(o, t, IntV(1000), k)
    \/ \E o \in Owners, t \in Owners : Transfer(o, t, IntV(10), "bad")
    \/ \E c \in {"RUB", "AAA"} : TotalDeposits(c, "None")

SpecLog == Init /\ [][NextLog]_vars

-----------------------------------------------------------------------------
(* CurrencyConverter.convert as a function of its arguments.  For a call   *)
(* of convert, `last` holds from_currency in .currency, to_currency in     *)
(* .target, the amount in .value and the converter in .converter.          *)

ConvertCurrencyArgs == {"RUB", "USD", "EUR", "GBP", "AAA"}

ConvertAmountArgs ==
    {Val("Decimal", 1230), Val("Decimal", 100000), Val("Decimal", 55000),
     Val("Decimal", -55000), Val("Decimal", 550), Val("Decimal", 0),
     Val("Decimal", 1005), IntV(1)}

CurrencyConverterArgs == {"None", "table", "usdrub", "empty"}

InitConvert ==
    /\ accounts = <<>>
    /\ heap = <<>>
    /\ artifacts = <<>>
    /\ added = 0
    /\ st = NoStatement
    /\ pre = NoPre
    /\ pc = "ready"
    /\ last \in {Call("convert", "", to, amount, from, k) :
                    from \in ConvertCurrencyArgs, to \in ConvertCurrencyArgs,
                    amount \in ConvertAmountArgs, k \in CurrencyConverterArgs}

ApplyConvert ==
    /\ pc = "ready"
    /\ last.op = "convert"
    /\ LET c == Convert(OrDefaultConverter(last.converter), last.value,
                        last.currency, last.target)
       IN  last' = [last EXCEPT !.exc = c.exc, !.ret = c.val]
    /\ pc' = "returned"
    /\ UNCHANGED <<accounts, heap, st, pre, artifacts, added>>

NextConvert == ApplyConvert

SpecConvert == InitConvert /\ [][NextConvert]_vars
-----------------------------------------------------------------------------
(* Vocabulary of the properties.  They are stated on the states in which a  *)
(* call has just returned: `last` is the call and its outcome, `pre` the    *)
(* accounts and lists as the call found them.                               *)

-----------------------------------------------------------------------------
(* _to_decimal_money on its own: every value of three decimal places up to  *)
(* MaxMilli thousandths, of each numeric type, and the values that are not  *)
(* numbers                                                                   *)

MaxMilli == 1510

NormalizeArgs ==
    {Val(t, m) : t \in {"float", "Decimal"}, m \in -MaxMilli..MaxMilli}
    \cup {IntV(n) : n \in -1..1}
    \cup {Val("bool", 0), Val("bool", 1000), Val("str", 0), NoValue}

InitNormalize ==
    /\ accounts = <<>>
    /\ heap = <<>>
    /\ artifacts = <<>>
    /\ added = 0
    /\ st = NoStatement
    /\ pre = NoPre
    /\ pc = "ready"
    /\ last \in {Call("_to_decimal_money", "", "", v, "", "") : v \in NormalizeArgs}

ApplyNormalize ==
    /\ pc = "ready"
    /\ last.op = "_to_decimal_money"
    /\ LET n == ToDecimalMoney(last.value)
       IN  last' = [last EXCEPT !.exc = n.exc, !.ret = n.val]
    /\ pc' = "returned"
    /\ UNCHANGED <<accounts, heap, st, pre, artifacts, added>>

NextNormalize == ApplyNormalize

SpecNormalize == InitNormalize /\ [][NextNormalize]_vars

-----------------------------------------------------------------------------
(* ArtifactProcessor (src/src/pr5/artifact_system.py)                       *)
(*                                                                          *)
(* An artifact is the dict {"name", "power", "type"}; the model adds `id`,  *)
(* the number of the add_artifact call that made the dict, so that two      *)
(* dicts with equal contents are still two objects.                         *)

\* Number of artifacts added over the life of a processor.
MaxAdded == 3

Str(s) == [t |-> "str", s |-> s]

NoneName == [t |-> "NoneType", s |-> ""]

\* name.strip() == "" for the names the callers use.
Blank(s) == s \in {"", "   "}

Artifact(name, power, type, id) ==
    [name |-> name, power |-> power, type |-> type, id |-> id]

NoArtifact == Artifact("", 0, "", 0)

ArtifactCall(op, name, power_level, is_magical) ==
    [op |-> op, name |-> name, power_level |-> power_level,
     is_magical |-> is_magical, exc |-> "none", ret |-> NoArtifact, count |-> 0]

\* The dict add_artifact appends and returns, or the exception it raises.
AddArtifactEffect(name, power_level, is_magical, id) ==
    IF name.t # "str" \/ Blank(name.s) THEN Raise("ValueError")
    ELSE IF power_level.t \notin {"bool", "int", "float"} THEN Raise("TypeError")
    ELSE IF power_level.m <= 0 THEN Raise("ValueError")
    ELSE Ok(Artifact(name.s, power_level.m,
                     IF is_magical THEN "magical" ELSE "normal", id))

StrongerOrEqual(art, max_art) == art.power >= max_art.power

\* art["power"] > max_art["power"]
Stronger(art, max_art) == art.power > max_art.power

\* The loop of get_most_powerful from position i on.
RECURSIVE MostPowerfulFrom(_, _, _)
MostPowerfulFrom(arts, max_art, i) ==
    IF i > Len(arts) THEN max_art
    ELSE MostPowerfulFrom(arts, IF Stronger(arts[i], max_art) THEN arts[i] ELSE max_art,
                          i + 1)

GetMostPowerfulEffect(arts) ==
    IF arts = <<>> THEN NoArtifact ELSE MostPowerfulFrom(arts, arts[1], 2)

\* [a for a in self.artifacts if a["name"] != name]
RECURSIVE WithoutName(_, _)
WithoutName(arts, name) ==
    IF arts = <<>> THEN <<>>
    ELSE IF name.t = "str" /\ Head(arts).name = name.s THEN WithoutName(Tail(arts), name)
    ELSE <<Head(arts)>> \o WithoutName(Tail(arts), name)

ArtifactNames == {Str("Dup"), Str("X")}

ArtifactPowers == {IntV(1), Val("float", 1500)}

AddArtifactArgs ==
    (ArtifactNames \X ArtifactPowers \X BOOLEAN)
    \cup ({NoneName, Str(""), Str("   "), [t |-> "int", s |-> "5"]} \X {IntV(10)} \X {TRUE})
    \cup ({Str("X")} \X {Val("str", 10000), IntV(0), IntV(-1), Val("float", -100)}
              \X {TRUE})

RemoveArtifactArgs == ArtifactNames \cup {Str("B"), NoneName}

InitArtifacts ==
    /\ accounts = <<>>
    /\ heap = <<>>
    /\ st = NoStatement
    /\ pre = NoPre
    /\ pc = "ready"
    /\ last = NoCall
    /\ artifacts = <<>>
    /\ added = 0

AddArtifact(name, power_level, is_magical) ==
    /\ pc = "ready"
    /\ added < MaxAdded
    /\ LET e == AddArtifactEffect(name, power_level, is_magical, added + 1) IN
       /\ artifacts' = IF e.exc = "none" THEN Append(artifacts, e.val) ELSE artifacts
       /\ added' = IF e.exc = "none" THEN added + 1 ELSE added
       /\ last' = [ArtifactCall("add_artifact", name, power_level, is_magical)
                      EXCEPT !.exc = e.exc,
                             !.ret = IF e.exc = "none" THEN e.val ELSE NoArtifact]
    /\ pc' = "returned"
    /\ UNCHANGED <<accounts, heap, st, pre>>

RemoveArtifact(name) ==
    /\ pc = "ready"
    /\ IF name.t = "NoneType"
       THEN /\ last' = [ArtifactCall("remove_artifact", name, NoValue, FALSE)
                           EXCEPT !.exc = "ValueError"]
            /\ UNCHANGED artifacts
       ELSE /\ artifacts' = WithoutName(artifacts, name)
            /\ last' = [ArtifactCall("remove_artifact", name, NoValue, FALSE)
                           EXCEPT !.count = Len(artifacts) - Len(WithoutName(artifacts, name))]
    /\ pc' = "returned"
    /\ UNCHANGED <<accounts, heap, st, pre, added>>

GetMostPowerful ==
    /\ pc = "ready"
    /\ last' = [ArtifactCall("get_most_powerful", NoneName, NoValue, FALSE)
                   EXCEPT !.ret = GetMostPowerfulEffect(artifacts)]
    /\ pc' = "returned"
    /\ UNCHANGED <<accounts, heap, st, pre, artifacts, added>>

NextArtifacts ==
    \/ \E a \in AddArtifactArgs : AddArtifact(a[1], a[2], a[3])
    \/ \E n \in RemoveArtifactArgs : RemoveArtifact(n)
    \/ GetMostPowerful
    \/ Return

SpecArtifacts == InitArtifacts /\ [][NextArtifacts]_vars

-----------------------------------------------------------------------------
(* MarsCalculator.factorial (src/src/pr5/mars_calculator.py)                *)

\* The integers -MaxN..MaxN are given to factorial.
MaxN == 60

\* The messages of the two ValueErrors, transliterated.
NegativeMessage == "Faktorial otritsatelnogo chisla ne opredelen"

TooLargeMessage == "Slishkom bolshoe chislo dlya bortovogo kompyutera"

RaiseMessage(kind, msg) == [exc |-> kind, msg |-> msg, val |-> 0]

\* prod(range(lo, hi + 1))
RECURSIVE Prod(_, _)
Prod(lo, hi) == IF lo > hi THEN 1 ELSE lo * Prod(lo + 1, hi)

TooLargeFromTen(n) == n >= 10

\* n > 10
TooLarge(n) == n > 10

\* isinstance(n, int) holds for int and for bool, its subclass.
Factorial(v) ==
    IF v.t \notin {"int", "bool"} THEN RaiseMessage("TypeError", "")
    ELSE LET n == v.m \div 1000 IN
         IF n < 0 THEN RaiseMessage("ValueError", NegativeMessage)
         ELSE IF TooLarge(n) THEN RaiseMessage("ValueError", TooLargeMessage)
         ELSE IF n \in {0, 1} THEN [exc |-> "none", msg |-> "", val |-> 1]
         ELSE [exc |-> "none", msg |-> "", val |-> Prod(2, n)]

FactorialArgs ==
    {IntV(n) : n \in -MaxN..MaxN}
    \cup {Val("float", 3200), Val("float", 3000), Val("str", 3000), NoValue,
          Val("bool", 1000), Val("bool", 0)}

FactorialCall(v) == [op |-> "factorial", value |-> v, exc |-> "none", msg |-> "", ret |-> 0]

InitFactorial ==
    /\ accounts = <<>>
    /\ heap = <<>>
    /\ artifacts = <<>>
    /\ added = 0
    /\ st = NoStatement
    /\ pre = NoPre
    /\ pc = "ready"
    /\ last \in {FactorialCall(v) : v \in FactorialArgs}

ApplyFactorial ==
    /\ pc = "ready"
    /\ last.op = "factorial"
    /\ LET f == Factorial(last.value)
       IN  last' = [last EXCEPT !.exc = f.exc, !.msg = f.msg, !.ret = f.val]
    /\ pc' = "returned"
    /\ UNCHANGED <<accounts, heap, st, pre, artifacts, added>>

NextFactorial == ApplyFactorial

SpecFactorial == InitFactorial /\ [][NextFactorial]_vars

Returned(op) == pc = "returned" /\ last.op = op

Failed == last.exc # "none"

\* No account, no field of an account, no log and no registry entry differs
\* from what the call found.
NothingChanged == accounts = pre.accounts /\ heap = pre.heap

\* The normalized amount of the call (its argument is a number).
Amount == Quantize(last.value.m, 3)

NumericArg == last.value.t \in {"int", "float", "Decimal"}

Sender == pre.accounts[last.owner]

Target == pre.accounts[last.target]

LogBefore(o) == Log(pre.accounts, pre.heap, o)

LogNow(o) == Log(accounts, heap, o)

\* The log of o now is its log before the call plus exactly one line.
OneLineAppended(o) ==
    /\ Len(LogNow(o)) = Len(LogBefore(o)) + 1
    /\ SubSeq(LogNow(o), 1, Len(LogBefore(o))) = LogBefore(o)

\* What the converter of the call answers for the transfer's conversion.
TransferConversion ==
    Convert(OrDefaultConverter(last.converter), Dec(Amount),
            Sender.currency, Target.currency)

\* The transfer got as far as calling the converter.
TransferReachedConversion ==
    /\ Returned("transfer")
    /\ ~Sender.is_blocked
    /\ last.target \in DOMAIN pre.accounts
    /\ NumericArg /\ Amount > 0
    /\ Sender.balance - Amount >= -Sender.overdraft_limit

-----------------------------------------------------------------------------
(* C1 *)

\* C1: transfer atomicity.  When the converter's convert call fails during a
\* transfer (a missing route, or an injected converter that raises), the
\* transfer fails and the balance, currency and log of both the sender and
\* the target are what they were before the call.
C1_TransferAtomic ==
    (TransferReachedConversion /\ TransferConversion.exc # "none")
        => /\ Failed
           /\ NothingChanged

\* A transfer between two accounts of different currencies, with the default
\* converter, that passed every check and failed on a missing route.
C1_Witness ==
    /\ TransferReachedConversion
    /\ last.converter = "None"
    /\ last.owner # last.target
    /\ <<Sender.currency, Target.currency>> \notin DOMAIN DefaultRates
    /\ Sender.currency # Target.currency
    /\ last.exc = "ValueError"

-----------------------------------------------------------------------------
(* C2 *)

\* C2: a successful transfer between two distinct accounts debits the sender
\* by the normalized amount, credits the target by
\* credited = convert(amount, sender currency, target currency), returns
\* credited, appends exactly one line to each log and changes no currency.
C2_TransferSuccess ==
    (Returned("transfer") /\ ~Failed /\ last.owner # last.target)
        => LET credited == TransferConversion.val IN
           /\ TransferConversion.exc = "none"
           /\ accounts[last.owner].balance = Sender.balance - Amount
           /\ accounts[last.target].balance = Target.balance + credited
           /\ last.ret = credited
           /\ OneLineAppended(last.owner)
           /\ OneLineAppended(last.target)
           /\ accounts[last.owner].currency = Sender.currency
           /\ accounts[last.target].currency = Target.currency

\* The transfer of the tests: 10.00 RUB sent to a USD account at 0.01, so
\* that the credited amount (0.10) differs from the amount debited.
C2_Witness ==
    /\ Returned("transfer") /\ ~Failed /\ last.owner # last.target
    /\ last.converter = "table"
    /\ Sender.currency = "RUB" /\ Target.currency = "USD"
    /\ Amount = 1000 /\ last.ret = 10
    /\ accounts[last.owner].balance = Sender.balance - 1000
    /\ accounts[last.target].balance = Target.balance + 10

-----------------------------------------------------------------------------
(* C3 *)

\* C3: withdraw(amount) on an unblocked account, with normalized amount
\* a > 0 and fee = a * 0.01 rounded half-up to 2 decimals, succeeds exactly
\* when balance - (a + fee) >= -overdraft_limit (equality succeeds) and
\* otherwise fails with ValueError; on success the balance decreases by
\* a + fee, one log line is appended and the value returned is a.
C3_Withdraw ==
    (Returned("withdraw") /\ ~Sender.is_blocked /\ NumericArg /\ Amount > 0)
        => LET a   == Amount
               fee == (a + 50) \div 100
           IN  IF Sender.balance - (a + fee) >= -Sender.overdraft_limit
               THEN /\ ~Failed
                    /\ accounts[last.owner].balance = Sender.balance - (a + fee)
                    /\ accounts[last.owner].currency = Sender.currency
                    /\ OneLineAppended(last.owner)
                    /\ last.ret = a
               ELSE /\ last.exc = "ValueError"
                    /\ NothingChanged

\* A withdrawal that took the balance exactly to minus the overdraft limit:
\* 109.01 plus the fee 1.09 from 100.00 with a limit of 10.10.
C3_Witness ==
    /\ Returned("withdraw") /\ ~Failed
    /\ Sender.overdraft_limit > 0
    /\ accounts[last.owner].balance = -Sender.overdraft_limit
    /\ last.ret = 10901
    /\ Sender.balance - accounts[last.owner].balance = 11010

-----------------------------------------------------------------------------
(* C4 *)

\* C4: while an account is blocked, every withdraw on it and every transfer
\* from it fails with PermissionError whatever the other arguments are, and
\* nothing changes.
C4_BlockedRefused ==
    ((Returned("withdraw") \/ Returned("transfer")) /\ Sender.is_blocked)
        => /\ last.exc = "PermissionError"
           /\ NothingChanged

\* A blocked account was asked to withdraw a value that is not an amount.
C4_Witness ==
    /\ Returned("withdraw") /\ Sender.is_blocked
    /\ last.value.t = "bool"
    /\ last.exc = "PermissionError"

-----------------------------------------------------------------------------
(* C5 *)

\* C5: deposit(amount) with normalized amount a succeeds exactly when
\* 0 < a <= 1,000,000.00 and otherwise fails with ValueError; on success
\* the balance increases by a, the line "+a <currency>" is appended and the
\* new balance is returned.
C5_Deposit ==
    (Returned("deposit") /\ NumericArg)
        => LET a == Amount IN
           IF 0 < a /\ a <= 100000000
           THEN /\ ~Failed
                /\ accounts[last.owner].balance = Sender.balance + a
                /\ last.ret = accounts[last.owner].balance
                /\ OneLineAppended(last.owner)
                /\ LogNow(last.owner)[Len(LogNow(last.owner))]
                      = "+" \o Fmt(a) \o " " \o Sender.currency
           ELSE /\ last.exc = "ValueError"
                /\ NothingChanged

\* A deposit of the ceiling itself, given as 1000000.004, was accepted.
C5_Witness ==
    /\ Returned("deposit") /\ ~Failed
    /\ last.value = Val("float", 1000000004)
    /\ accounts[last.owner].balance = Sender.balance + 100000000
    /\ LogNow(last.owner)[Len(LogNow(last.owner))] = "+1000000.00 RUB"

-----------------------------------------------------------------------------
(* C6 *)

-----------------------------------------------------------------------------
(* C7 *)

\* n copies of the line the caller appends.
Hacks(n) == [i \in 1..n |-> "HACK"]

\* C7: the statement is a snapshot.  Appending to the list it returned
\* changes no account and no account's log, and whatever is done to the
\* accounts afterwards, the returned list holds what it held when it was
\* returned plus what the caller itself appended.
C7_StatementSnapshot ==
    /\ Returned("append_to_statement") =>
          /\ accounts = pre.accounts
          /\ \A o \in DOMAIN accounts : LogNow(o) = LogBefore(o)
    /\ st.valid => heap[st.dict.transactions] = st.taken \o Hacks(st.hacks)

\* The caller appended to a statement of a used account, and the account
\* has been operated on since the statement was taken.
C7_Witness ==
    /\ st.valid /\ st.hacks = 1 /\ st.taken # <<>>
    /\ st.dict.owner \in DOMAIN accounts
    /\ Len(LogNow(st.dict.owner)) > Len(st.taken)
    /\ accounts[st.dict.owner].balance # st.dict.balance

-----------------------------------------------------------------------------
(* C8 *)

\* C8: the registry holds at most one account per owner name.  A
\* create_account for a registered owner fails with ValueError and leaves the
\* existing account as it is; a successful one adds exactly the entry of
\* that owner; one that fails registers nothing; no entry is ever removed.
C8_UniqueOwners ==
    /\ \A o \in DOMAIN accounts : accounts[o].owner = o
    /\ pc = "returned" => DOMAIN pre.accounts \subseteq DOMAIN accounts
    /\ Returned("create_account") =>
         /\ last.owner \in DOMAIN pre.accounts
              => last.exc = "ValueError" /\ NothingChanged
         /\ Failed => DOMAIN accounts = DOMAIN pre.accounts
         /\ ~Failed =>
              /\ last.owner \notin DOMAIN pre.accounts
              /\ DOMAIN accounts = DOMAIN pre.accounts \cup {last.owner}
              /\ \A o \in DOMAIN pre.accounts : accounts[o] = pre.accounts[o]

\* create_account for an owner whose account has been used since it was
\* created, with arguments that would otherwise make a new account.
C8_Witness ==
    /\ Returned("create_account")
    /\ last.owner \in DOMAIN pre.accounts
    /\ LogBefore(last.owner) # <<>>
    /\ last.value = IntV(100) /\ last.currency \in SUPPORTED_CURRENCIES
    /\ last.exc = "ValueError"

-----------------------------------------------------------------------------
(* C9 *)

\* What account o adds to total_deposits: nothing if it is absent or blocked.
Contribution(o) ==
    IF o \in DOMAIN pre.accounts /\ ~pre.accounts[o].is_blocked
    THEN Convert(OrDefaultConverter(last.converter), Dec(pre.accounts[o].balance),
                 pre.accounts[o].currency, last.currency)
    ELSE Ok(0)

\* C9: total_deposits returns the normalized sum, over exactly the unblocked
\* accounts, of their balances converted to the reporting currency; a
\* blocked account adds nothing and cannot make the call fail; the call
\* changes nothing.
C9_TotalDeposits ==
    Returned("total_deposits") =>
        /\ NothingChanged
        /\ (/\ last.currency \in SUPPORTED_CURRENCIES
            /\ \A o \in Owners : Contribution(o).exc = "none")
              => /\ ~Failed
                 /\ last.ret = Contribution("A").val + Contribution("B").val
        /\ ~Failed => \A o \in Owners : Contribution(o).exc = "none"

\* The call succeeded although a blocked account holds a currency with no
\* route to the reporting currency, and the other account was converted.
C9_Witness ==
    /\ Returned("total_deposits") /\ ~Failed
    /\ last.converter = "None"
    /\ \E b \in DOMAIN accounts, u \in DOMAIN accounts :
         /\ accounts[b].is_blocked /\ accounts[b].balance # 0
         /\ accounts[b].currency # last.currency
         /\ <<accounts[b].currency, last.currency>> \notin DOMAIN DefaultRates
         /\ ~accounts[u].is_blocked
         /\ accounts[u].currency # last.currency
         /\ last.ret # 0 /\ last.ret # accounts[u].balance
-----------------------------------------------------------------------------
(* C10 *)

\* r is a * rate rounded to the nearest hundredth, ties away from zero,
\* stated without a division (for rates of at most two places).
NearestHalfUp(r, a, rate) ==
    LET d    == Pow10(rate.exp)
        diff == 2 * Abs(r * d - a * rate.coef)
    IN  /\ diff <= d
        /\ diff = d => Abs(r * d) > Abs(a * rate.coef)

\* What the code answers for the built-in seven-place rates (RUB to EUR).
KnownRubEur == (10000 :> 91) @@ (5500 :> 50) @@ (-5500 :> -50) @@ (123 :> 1)
               @@ (55 :> 1) @@ (0 :> 0)

\* C10: CurrencyConverter.convert fails with ValueError if from or to is not
\* a supported currency; returns the amount unchanged if from = to; otherwise
\* succeeds only if the ordered pair (from, to) is in the converter's rate
\* table, returning amount * rate rounded half-up to 2 decimals, and fails
\* with ValueError when the pair is absent, whatever other routes exist.
\* (The amount is a money value: a Decimal of two places.)
C10_Convert ==
    (Returned("convert") /\ last.value.t = "Decimal" /\ last.value.m % 10 = 0)
        => LET from  == last.currency
               to    == last.target
               a     == last.value.m \div 10
               table == OrDefaultConverter(last.converter).rates
           IN  IF from \notin {"RUB", "USD", "EUR", "GBP"}
                  \/ to \notin {"RUB", "USD", "EUR", "GBP"}
               THEN last.exc = "ValueError"
               ELSE IF from = to
               THEN ~Failed /\ last.ret = a
               ELSE IF <<from, to>> \in DOMAIN table
               THEN /\ ~Failed
                    /\ table[<<from, to>>].exp <= 2
                         => NearestHalfUp(last.ret, a, table[<<from, to>>])
                    /\ (from = "RUB" /\ to = "EUR") => last.ret = KnownRubEur[a]
               ELSE last.exc = "ValueError"

\* RUB to USD was asked of a converter that only has USD to RUB.
C10_Witness ==
    /\ Returned("convert")
    /\ last.converter = "usdrub"
    /\ last.currency = "RUB" /\ last.target = "USD"
    /\ last.value = Val("Decimal", 1230)
    /\ last.exc = "ValueError"

\* C11: _to_decimal_money gives every number that is not a bool the amount of
\* two decimal places nearest to it, and of two equally near amounts the one
\* further from zero (1.005 gives 1.01, 0.004 gives 0.00, -1.005 gives -1.01);
\* a bool and a value that is not a number raise TypeError.
C11_Normalize ==
    Returned("_to_decimal_money") =>
        LET v == last.value
            r == last.ret
        IN  IF v.t = "bool" \/ v.t \notin {"int", "float", "Decimal"}
            THEN last.exc = "TypeError"
            ELSE /\ ~Failed
                 /\ \A c \in (r - 1)..(r + 1) :
                        \/ Abs(10 * r - v.m) < Abs(10 * c - v.m)
                        \/ Abs(10 * r - v.m) = Abs(10 * c - v.m) /\ Abs(r) >= Abs(c)
                 /\ Abs(10 * r - v.m) <= 5
                 /\ (v.m = 1005 => r = 101) /\ (v.m = 4 => r = 0)
                 /\ (v.m = -1005 => r = -101)

C11_Witness ==
    /\ Returned("_to_decimal_money") /\ ~Failed
    /\ last.value = Val("float", -1005) /\ last.ret = -101
-----------------------------------------------------------------------------
(* C12 *)

\* What the converter of the call answers for the conversion of the whole
\* balance that convert_to asks for.
ConvertToConversion ==
    Convert(OrDefaultConverter(last.converter), Dec(Sender.balance),
            Sender.currency, last.currency)

\* C12: convert_to raises ValueError for a target currency that is not
\* supported.  When the converter answers, the balance becomes its answer for
\* (old balance, old currency, target), the currency becomes the target,
\* exactly one line naming the target is appended to the log and the new
\* balance is returned, also when the target is the currency the account
\* already has (the balance is then what it was).  When the converter raises,
\* the call raises and balance, currency and log are what they were.
C12_ConvertTo ==
    Returned("convert_to") =>
        LET o == last.owner IN
        IF last.currency \notin SUPPORTED_CURRENCIES
        THEN last.exc = "ValueError" /\ NothingChanged
        ELSE IF ConvertToConversion.exc # "none"
        THEN Failed /\ NothingChanged
        ELSE /\ ~Failed
             /\ accounts[o].balance = ConvertToConversion.val
             /\ accounts[o].currency = last.currency
             /\ last.ret = accounts[o].balance
             /\ OneLineAppended(o)
             /\ LogNow(o)[Len(LogNow(o))] = "Konvertirovat v " \o last.currency
             /\ (last.currency = Sender.currency => accounts[o].balance = Sender.balance)
             /\ \A p \in DOMAIN pre.accounts \ {o} : accounts[p] = pre.accounts[p]
             /\ [accounts[o] EXCEPT !.balance = 0, !.currency = ""]
                  = [Sender EXCEPT !.balance = 0, !.currency = ""]

\* A conversion to the currency the account already has, with money on it.
C12_Witness ==
    /\ Returned("convert_to") /\ ~Failed
    /\ last.currency = Sender.currency
    /\ Sender.balance > 0
    /\ OneLineAppended(last.owner)
-----------------------------------------------------------------------------
(* C13 *)

\* C13: is_blocked guards withdraw and the sending side of transfer only.  On
\* a blocked account a deposit of an acceptable amount and a convert_to whose
\* conversion is answered succeed with the effect they have on an account that
\* is not blocked, and the account stays blocked; a transfer from an account
\* that is not blocked to a blocked one, with the funds and the conversion
\* there, succeeds and credits the blocked target.
C13_BlockedGuardsOnlyOutgoing ==
    /\ (Returned("deposit") /\ Sender.is_blocked /\ NumericArg
            /\ 0 < Amount /\ Amount <= 100000000)
        => /\ ~Failed
           /\ accounts[last.owner] = [Sender EXCEPT !.balance = @ + Amount]
           /\ last.ret = Sender.balance + Amount
           /\ OneLineAppended(last.owner)
    /\ (Returned("convert_to") /\ Sender.is_blocked
            /\ last.currency \in SUPPORTED_CURRENCIES
            /\ ConvertToConversion.exc = "none")
        => /\ ~Failed
           /\ accounts[last.owner] =
                 [Sender EXCEPT !.balance = ConvertToConversion.val,
                                !.currency = last.currency]
           /\ last.ret = ConvertToConversion.val
           /\ OneLineAppended(last.owner)
    /\ (TransferReachedConversion /\ Target.is_blocked
            /\ last.owner # last.target /\ TransferConversion.exc = "none")
        => /\ ~Failed
           /\ accounts[last.target] =
                 [Target EXCEPT !.balance = @ + TransferConversion.val]
           /\ accounts[last.owner] = [Sender EXCEPT !.balance = @ - Amount]
           /\ OneLineAppended(last.target)

\* A deposit on a blocked account was accepted.
C13_Witness ==
    /\ Returned("deposit") /\ ~Failed
    /\ Sender.is_blocked /\ accounts[last.owner].is_blocked
    /\ accounts[last.owner].balance = Sender.balance + Amount
-----------------------------------------------------------------------------
(* C14 *)

\* What may stand around a part of a transfer line: nothing, or the other
\* party of the transfer after a connecting word.
LineAffixes ==
    {""} \cup {w \o o : w \in {" v ", " ot ", " to ", " from "}, o \in Owners}

\* `part in line` for the lines a transfer writes.
ContainsPart(line, part) ==
    \E before \in LineAffixes, after \in LineAffixes : line = before \o part \o after

\* C14: the log lines have the formats the tests assert.  After a withdraw of
\* a with fee f in currency c the last line is exactly "-a (fee: f) c"; after
\* convert_to(t) it is exactly "Convert to t"; after a transfer the sender's
\* last line contains "Transfer -a c" and the target's last line contains
\* "Transfer +credited c2", with c2 the target's currency.
C14_LogFormats ==
    /\ (Returned("withdraw") /\ ~Failed)
        => LogNow(last.owner)[Len(LogNow(last.owner))]
              = "-" \o Fmt(Amount) \o " (fee: " \o Fmt(Fee(Amount)) \o ") "
                    \o Sender.currency
    /\ (Returned("convert_to") /\ ~Failed)
        => LogNow(last.owner)[Len(LogNow(last.owner))]
              = "Convert to " \o last.currency
    /\ (Returned("transfer") /\ ~Failed /\ last.owner # last.target)
        => /\ ContainsPart(LogNow(last.owner)[Len(LogNow(last.owner))],
                  "Transfer -" \o Fmt(Amount) \o " " \o Sender.currency)
           /\ ContainsPart(LogNow(last.target)[Len(LogNow(last.target))],
                  "Transfer +" \o Fmt(last.ret) \o " " \o Target.currency)
-----------------------------------------------------------------------------
(* C15 *)

\* C15: after any sequence of add_artifact and remove_artifact,
\* get_most_powerful returns None when no artifact remains, and otherwise the
\* remaining artifact that was added earliest among those whose power is the
\* greatest power of the remaining artifacts.
C15_MostPowerful ==
    Returned("get_most_powerful") =>
        IF artifacts = <<>> THEN last.ret = NoArtifact
        ELSE /\ \E i \in 1..Len(artifacts) : artifacts[i] = last.ret
             /\ \A j \in 1..Len(artifacts) :
                   /\ artifacts[j].power <= last.ret.power
                   /\ artifacts[j].power = last.ret.power
                        => artifacts[j].id >= last.ret.id

\* After the artifact added first was removed, two artifacts of the greatest
\* power remain and the one added earlier is returned.
C15_Witness ==
    /\ Returned("get_most_powerful")
    /\ Len(artifacts) = 2
    /\ artifacts[1].id = 2 /\ artifacts[2].id = 3
    /\ artifacts[1].power = artifacts[2].power
    /\ last.ret = artifacts[1]
-----------------------------------------------------------------------------
(* C16 *)

\* 0!, 1!, ..., 10!
Factorials == <<1, 1, 2, 6, 24, 120, 720, 5040, 40320, 362880, 3628800>>

\* C16: factorial(n) is n! for every integer 0 <= n <= 10, both ends
\* included; it fails for n < 0 and for n > 10 with two failures that can be
\* told apart (the ValueError for a negative number and the ValueError for a
\* number that is too large); a value that is not an integer raises TypeError.
C16_Factorial ==
    Returned("factorial") =>
        LET v == last.value
            n == v.m \div 1000
        IN  IF v.t = "int"
            THEN /\ (0 <= n /\ n <= 10) => (~Failed /\ last.ret = Factorials[n + 1])
                 /\ n < 0 => (last.exc = "ValueError" /\ last.msg = NegativeMessage)
                 /\ n > 10 => (last.exc = "ValueError" /\ last.msg = TooLargeMessage)
                 /\ NegativeMessage # TooLargeMessage
            ELSE v.t # "bool" => last.exc = "TypeError"

\* factorial(10) is 3628800.
C16_Witness ==
    /\ Returned("factorial") /\ ~Failed
    /\ last.value = IntV(10) /\ last.ret = 3628800
-----------------------------------------------------------------------------
(* C17 *)

\* C17: overdraft bound.  An account created with a balance that is not
\* negative, whose overdraft limit L >= 0 stays what it was set to, never has
\* a balance below -L, whatever deposits, withdrawals, conversions and
\* transfers are made with converters whose rates are positive.
C17_OverdraftBound ==
    \A o \in DOMAIN accounts : accounts[o].balance >= -accounts[o].overdraft_limit
-----------------------------------------------------------------------------
(* C18 *)

\* The table handed to CurrencyConverter(...) by the caller, for the
\* converters made with one.
SuppliedRates(name) ==
    CASE name = "table"  -> TestRates
      [] name = "usdrub" -> TestRatesUsdRub
      [] name = "empty"  -> <<>>

\* C18: the default rates are used only when no table is supplied.  With a
\* converter made from a table the caller supplied, the empty table included,
\* convert between two different supported currencies returns only when the
\* pair is a key of that table, and raises ValueError otherwise.
C18_SuppliedTableOnly ==
    (Returned("convert") /\ last.converter \in {"table", "usdrub", "empty"}
        /\ last.value.t = "Decimal"
        /\ last.currency \in SUPPORTED_CURRENCIES /\ last.target \in SUPPORTED_CURRENCIES
        /\ last.currency # last.target)
    => IF <<last.currency, last.target>> \in DOMAIN SuppliedRates(last.converter)
       THEN ~Failed
       ELSE last.exc = "ValueError"
-----------------------------------------------------------------------------
(* C19 *)

\* The transfer passed the checks that come before the funds check.
TransferReachedFundsCheck ==
    /\ Returned("transfer")
    /\ ~Sender.is_blocked
    /\ last.target \in DOMAIN pre.accounts
    /\ NumericArg /\ Amount > 0

\* C19: in transfer the funds check comes before the conversion.  Whenever
\* balance - amount < -overdraft_limit, the transfer raises the ValueError of
\* insufficient funds and convert is not called, also when the converter has no
\* route for the pair or would raise.  convert is called only after the
\* blocked, target, amount and funds checks have all passed, and it is called
\* with every balance and log still as the transfer found them.
C19_FundsCheckBeforeConversion ==
    Returned("transfer") =>
        /\ (TransferReachedFundsCheck
                /\ Sender.balance - Amount < -Sender.overdraft_limit)
            => /\ last.exc = "ValueError"
               /\ ~last.convert.invoked
               /\ NothingChanged
        /\ last.convert.invoked
            => /\ TransferReachedConversion
               /\ last.convert.accounts = pre.accounts
               /\ last.convert.heap = pre.heap
        /\ TransferReachedConversion => last.convert.invoked

\* A transfer of more than the sender has, with a converter that would raise:
\* refused for the funds, the converter not called.
C19_Witness ==
    /\ TransferReachedFundsCheck
    /\ Sender.balance - Amount < -Sender.overdraft_limit
    /\ last.converter = "bad"
    /\ last.owner # last.target
    /\ Failed /\ ~last.convert.invoked
-----------------------------------------------------------------------------
(* C20 *)

IsPrefix(s, t) == Len(s) <= Len(t) /\ SubSeq(t, 1, Len(s)) = s

\* How many lines the step is to add to the log of o: those of the call that
\* returns in it, if it returns without an exception.
LinesDue(o) ==
    IF pc = "ready" /\ pc' = "returned" /\ last'.exc = "none"
    THEN CASE last'.op \in {"deposit", "withdraw", "convert_to"} ->
                  IF last'.owner = o THEN 1 ELSE 0
           [] last'.op = "transfer" ->
                  (IF last'.owner = o THEN 1 ELSE 0) + (IF last'.target = o THEN 1 ELSE 0)
           [] OTHER -> 0
    ELSE 0

\* C20: the log of an account is append-only.  In every step the log of every
\* account begins with what it was before the step.  A deposit, withdraw or
\* convert_to that returns adds exactly one line to its account, a transfer
\* that returns one line to the sender and one to the target; a call that
\* raises, get_statement, total_deposits and whatever the caller does to a
\* statement add nothing; the log of a new account is empty.
C20_AppendOnly ==
    [][ /\ DOMAIN accounts \subseteq DOMAIN accounts'
        /\ \A o \in DOMAIN accounts' :
              IF o \in DOMAIN accounts
              THEN /\ IsPrefix(Log(accounts, heap, o), Log(accounts', heap', o))
                   /\ Len(Log(accounts', heap', o))
                         = Len(Log(accounts, heap, o)) + LinesDue(o)
              ELSE /\ Log(accounts', heap', o) = <<>>
                   /\ last'.op = "create_account" ]_vars

\* A deposit extended a log that already had a line.
C20_Witness ==
    /\ Returned("deposit") /\ ~Failed
    /\ LogBefore(last.owner) # <<>>
    /\ Len(LogNow(last.owner)) = 2
    /\ LogNow(last.owner)[1] = LogBefore(last.owner)[1]
-----------------------------------------------------------------------------
(* C21 *)

\* The sum of the balances of the accounts in `owners`.
RECURSIVE SumBalances(_, _)
SumBalances(accs, owners) ==
    IF owners = {} THEN 0
    ELSE LET o == CHOOSE x \in owners : TRUE
         IN  accs[o].balance + SumBalances(accs, owners \ {o})

\* C21: a transfer between accounts of the same currency that returns, made
\* with a CurrencyConverter, credits the amount transferred, and the sum of
\* the balances of all accounts after it is what it was before it.  When the
\* target is the sender itself, that account's balance is what it was.
C21_SameCurrencyConserves ==
    (Returned("transfer") /\ ~Failed
        /\ last.converter \in {"None", "table"}
        /\ Sender.currency = Target.currency)
    => /\ last.ret = Amount
       /\ DOMAIN accounts = DOMAIN pre.accounts
       /\ SumBalances(accounts, DOMAIN accounts)
             = SumBalances(pre.accounts, DOMAIN pre.accounts)
       /\ IF last.owner = last.target
          THEN accounts[last.owner].balance = Sender.balance
          ELSE /\ accounts[last.owner].balance = Sender.balance - Amount
               /\ accounts[last.target].balance = Target.balance + Amount

\* A transfer of 10.00 from an account with money on it to itself.
C21_Witness ==
    /\ Returned("transfer") /\ ~Failed
    /\ last.converter \in {"None", "table"}
    /\ last.owner = last.target
    /\ Amount = 1000 /\ Sender.balance >= 1000
    /\ accounts[last.owner].balance = Sender.balance
    /\ Len(LogNow(last.owner)) = Len(LogBefore(last.owner)) + 2

====
